---- MODULE Spec2Model ----
(***************************************************************************)
(* A model of montecarlo/project.py: the classes Die, Game and Analyzer.   *)
(* Objects are modelled by their attributes; a pandas Series is a function *)
(* from its index to its values, a pandas DataFrame is a record of its     *)
(* index, its column labels and its columns.  Exceptions are modelled by   *)
(* the name of the exception class a call ends with ("ok" when it returns).*)
(***************************************************************************)
EXTENDS Integers, Sequences, FiniteSets, TLC

\* Largest weight and largest weight/rounds argument the model enumerates.
MaxWeight == 1
MaxTimes == 2
\* Longest list handed to Game(...).
MaxListLen == 2

VARIABLES
    dice,   \* the Die objects alive, by identity: dice[d] is Die number d
    game,   \* the Game object (game.made = FALSE before one is constructed)
    an,     \* the Analyzer object (an.made = FALSE before one is constructed)
    last    \* the last call made: operation, arguments, exception, return value

vars == <<dice, game, an, last>>

\* vars, the operation and the outcome of the last call first
callvars == <<last.op, last.err, vars>>

Range(s) == {s[i] : i \in DOMAIN s}

RECURSIVE SeqSum(_)
SeqSum(s) == IF s = <<>> THEN 0 ELSE Head(s) + SeqSum(Tail(s))

-----------------------------------------------------------------------------
(* Python values handed in as arguments.                                   *)

PyInt(n) == [t |-> "int", n |-> n, s |-> <<>>]
\* a str, as the sequence of its characters
PyStr(cs) == [t |-> "str", n |-> 0, s |-> cs]

DigitVal == [c \in {"0", "1", "2", "3", "4", "5", "6", "7", "8", "9"} |->
               CASE c = "0" -> 0 [] c = "1" -> 1 [] c = "2" -> 2 [] c = "3" -> 3
                 [] c = "4" -> 4 [] c = "5" -> 5 [] c = "6" -> 6 [] c = "7" -> 7
                 [] c = "8" -> 8 [] c = "9" -> 9]

RECURSIVE DigitsValue(_, _)
DigitsValue(cs, acc) ==
    IF cs = <<>> THEN acc ELSE DigitsValue(Tail(cs), 10 * acc + DigitVal[Head(cs)])

IsDigits(cs) == cs # <<>> /\ \A i \in DOMAIN cs : cs[i] \in DOMAIN DigitVal

\* float(x) of a str succeeds on an optionally signed run of digits
FloatParses(cs) ==
    \/ IsDigits(cs)
    \/ cs # <<>> /\ Head(cs) \in {"-", "+"} /\ IsDigits(Tail(cs))

float(cs) ==
    IF Head(cs) = "-" THEN 0 - DigitsValue(Tail(cs), 0)
    ELSE IF Head(cs) = "+" THEN DigitsValue(Tail(cs), 0)
    ELSE DigitsValue(cs, 0)

\* isinstance(x, int) and x > 0
IsPositiveInt(x) == x.t = "int" /\ x.n > 0

-----------------------------------------------------------------------------
(* class Die                                                               *)

\* Die.__init__ on a valid array of faces: every weight is 1
Die(faces) == [faces |-> faces, die_df |-> [f \in Range(faces) |-> 1]]

get_faces(die) == die.faces

current_state(die) == die.die_df

\* the weight change_weight stores: new_weight itself, or float(new_weight)
NewWeight(w) == IF w.t = "int" THEN w.n ELSE float(w.s)

\* the mutant: the sign check is missing
change_weight_err_nosign(die, face, w) ==
    IF face \notin Range(die.faces) THEN "IndexError"
    ELSE IF w.t # "int" /\ ~FloatParses(w.s) THEN "TypeError"
    ELSE "ok"

\* the exception change_weight(face, new_weight) ends with
change_weight_err(die, face, w) ==
    IF face \notin Range(die.faces) THEN "IndexError"
    ELSE IF w.t # "int" /\ ~FloatParses(w.s) THEN "TypeError"
    ELSE IF NewWeight(w) < 0 THEN "ValueError"
    ELSE "ok"

change_weight(die, face, w) ==
    IF change_weight_err(die, face, w) = "ok"
    THEN [die EXCEPT !.die_df[face] = NewWeight(w)]
    ELSE die

WeightSum(die) == SeqSum([i \in DOMAIN die.faces |-> die.die_df[die.faces[i]]])

\* the faces Series.sample can return: those of positive weight
Support(die) == {f \in Range(die.faces) : die.die_df[f] > 0}

\* roll_time(times): the outcomes the call can have
roll_time(die, times) ==
    IF ~IsPositiveInt(times) THEN {[err |-> "ValueError", samples |-> <<>>]}
    ELSE IF WeightSum(die) = 0 THEN {[err |-> "ValueError", samples |-> <<>>]}
    ELSE {[err |-> "ok", samples |-> s] : s \in [1..times.n -> Support(die)]}

-----------------------------------------------------------------------------
(* pandas.DataFrame                                                        *)

\* pd.DataFrame()
EmptyDF == [index |-> <<>>, columns |-> <<>>, data |-> <<>>]

NRows(df) == Len(df.index)
NCols(df) == Len(df.columns)

\* the values of the r-th row, in column order
RowAt(df, r) == [j \in 1..NCols(df) |-> df.data[j][r]]

\* df[label] = values, for a label that is no column yet
SetColumn(df, label, values) ==
    [index |-> IF NCols(df) = 0 THEN [r \in 1..Len(values) |-> r - 1] ELSE df.index,
     columns |-> Append(df.columns, label),
     data |-> Append(df.data, values)]

-----------------------------------------------------------------------------
(* class Game                                                              *)

\* A list item is a reference to a Die (its number) or, as 0, an object that
\* is no Die.
IsDie(x) == x \in DOMAIN dice

PyList(items) == [t |-> "list", items |-> items]
NotAList == [t |-> "str", items |-> <<>>]

\* the mutant: the faces compared as ordered sequences
FaceSeq(d) == get_faces(dice[d])

\* set(die.get_faces())
FaceSet(d) == Range(get_faces(dice[d]))

\* the exception Game(dice_list) ends with
Game_err(arg) ==
    IF arg.t # "list" THEN "TypeError"
    ELSE IF \E i \in DOMAIN arg.items : ~IsDie(arg.items[i]) THEN "AttributeError"
    ELSE IF ~(\A i \in DOMAIN arg.items : FaceSet(arg.items[i]) = FaceSet(arg.items[1]))
         THEN "ValueError"
    ELSE "ok"

\* The attributes of a Game.  times and dice_faces exist only once play and
\* get_dice_faces have set them: <<>> is the missing attribute.
NewGame(dice_list) ==
    [made |-> TRUE, dice_list |-> dice_list, play_df |-> EmptyDF,
     times |-> <<>>, dice_faces |-> <<>>]

NoGame == [made |-> FALSE, dice_list |-> <<>>, play_df |-> EmptyDF,
           times |-> <<>>, dice_faces |-> <<>>]

\* the mutant: range(0, times)
PlayIndexFromZero(times) == [r \in 1..times |-> r - 1]

\* range(1, times + 1)
PlayIndex(times) == [r \in 1..times |-> r]

\* range(1, len(self.__dice_list) + 1)
PlayColumns(n) == [j \in 1..n |-> j]

\* df.index = labels: pandas refuses labels of another length
SetIndex(df, labels) ==
    IF Len(labels) # NRows(df) THEN [err |-> "ValueError", df |-> df]
    ELSE [err |-> "ok", df |-> [df EXCEPT !.index = labels]]

\* df.columns = labels
SetColumns(df, labels) ==
    IF Len(labels) # NCols(df) THEN [err |-> "ValueError", df |-> df]
    ELSE [err |-> "ok", df |-> [df EXCEPT !.columns = labels]]

\* for i, dice in enumerate(self.__dice_list): self.__play_df[i] = dice.roll_time(times)
\* rolls[i] is the outcome of the i-th die's roll_time; the loop ends at the
\* first one that raises.
RECURSIVE PlayLoop(_, _, _)
PlayLoop(df, i, rolls) ==
    IF i > Len(rolls) THEN [err |-> "ok", df |-> df]
    ELSE IF rolls[i].err # "ok" THEN [err |-> rolls[i].err, df |-> df]
    ELSE PlayLoop(SetColumn(df, i - 1, rolls[i].samples), i + 1, rolls)

\* play(times), the dice rolling as rolls says: the exception and the Game after
play(g, times, rolls) ==
    IF ~IsPositiveInt(times) THEN [err |-> "ValueError", game |-> g]
    ELSE LET g1 == [g EXCEPT !.times = <<times.n>>]
             looped == PlayLoop(EmptyDF, 1, rolls)
             indexed == SetIndex(looped.df, PlayIndex(times.n))
             labelled == SetColumns(indexed.df, PlayColumns(Len(g.dice_list)))
         IN  IF looped.err # "ok"
             THEN [err |-> looped.err, game |-> [g1 EXCEPT !.play_df = looped.df]]
             ELSE IF indexed.err # "ok"
             THEN [err |-> indexed.err, game |-> [g1 EXCEPT !.play_df = indexed.df]]
             ELSE [err |-> labelled.err, game |-> [g1 EXCEPT !.play_df = labelled.df]]

\* the rows of the narrow frame that come from the r-th row of df
StackRow(df, r) ==
    [j \in 1..NCols(df) |->
        [key |-> <<df.index[r], df.columns[j]>>, Outcome |-> df.data[j][r]]]

\* the mutant: one die after the other, each with all its rolls
RECURSIVE StackByColumn(_, _)
StackByColumn(df, j) ==
    IF j > NCols(df) THEN <<>>
    ELSE [r \in 1..NRows(df) |->
            [key |-> <<df.index[r], df.columns[j]>>, Outcome |-> df.data[j][r]]]
         \o StackByColumn(df, j + 1)

\* df.stack().reset_index() with ['Roll Number', 'Die Number'] as the index:
\* the rows from row r of df on, one roll after the other
RECURSIVE Stack(_, _)
Stack(df, r) ==
    IF r > NRows(df) THEN <<>> ELSE StackRow(df, r) \o Stack(df, r + 1)

\* show_results(wide): the exception and the frame returned
show_results(g, wide) ==
    IF ~(wide = 0 \/ wide = 1) THEN [err |-> "ValueError", ret |-> <<>>]
    ELSE IF wide = 0 THEN [err |-> "ok", ret |-> Stack(g.play_df, 1)]
    ELSE [err |-> "ok", ret |-> g.play_df]

\* get_dice_faces(): raises on an empty dice list, else stores and returns the
\* faces of the first die
get_dice_faces(g) ==
    IF Len(g.dice_list) = 0 THEN [err |-> "IndexError", game |-> g, ret |-> <<>>]
    ELSE [err |-> "ok",
          game |-> [g EXCEPT !.dice_faces = <<get_faces(dice[g.dice_list[1]])>>],
          ret |-> get_faces(dice[g.dice_list[1]])]

\* get_event_number(): self.times, an attribute only play creates
get_event_number(g) ==
    IF g.times = <<>> THEN [err |-> "AttributeError", ret |-> 0]
    ELSE [err |-> "ok", ret |-> g.times[1]]

-----------------------------------------------------------------------------
(* class Analyzer                                                          *)

\* The attributes of an Analyzer.  jackpot is <<>> while the name still finds
\* the method of the class, and holds the Series once jackpot() has stored it
\* on the instance; face_counter is <<>> until face_count() has stored it.
NoAnalyzer ==
    [made |-> FALSE, results |-> EmptyDF, faces |-> <<>>, event_number |-> 0,
     jackpot |-> <<>>, face_counter |-> <<>>]

\* Analyzer(game): the exception, the Analyzer made and the Game after.
\* arg is "game" for the Game object g and anything else for another object.
Analyzer_init(g, arg) ==
    IF arg # "game" THEN [err |-> "ValueError", an |-> NoAnalyzer, game |-> g]
    ELSE LET res == show_results(g, 1)
             f == get_dice_faces(g)
             e == get_event_number(f.game)
         IN  IF f.err # "ok" THEN [err |-> f.err, an |-> NoAnalyzer, game |-> g]
             ELSE IF e.err # "ok"
             THEN [err |-> e.err, an |-> NoAnalyzer, game |-> f.game]
             ELSE [err |-> "ok",
                   an |-> [made |-> TRUE, results |-> res.ret, faces |-> f.ret,
                           event_number |-> e.ret, jackpot |-> <<>>,
                           face_counter |-> <<>>],
                   game |-> f.game]

\* the mutant: the Analyzer reads the session's table instead of its own
results_live(a) == game.play_df

\* self.results: the frame show_results(1) returned to __init__, a copy
results(a) == a.results

\* Series.nunique()
nunique(row) == Cardinality(Range(row))

\* the mutant: any row that holds a value counts
is_jackpot_any(row) == nunique(row) >= 1

\* self.results.nunique(axis = 1) == 1, for one row
is_jackpot(row) == nunique(row) = 1

\* sum(series) of a Series of booleans: the number of its True values
SumTrue(series) == Cardinality({r \in DOMAIN series : series[r]})

\* jackpot(): the exception, the Analyzer after and the value returned
jackpot(a) ==
    IF a.jackpot # <<>> THEN [err |-> "TypeError", an |-> a, ret |-> 0]
    ELSE LET series == [r \in 1..NRows(results(a)) |-> is_jackpot(RowAt(results(a), r))]
         IN  [err |-> "ok", an |-> [a EXCEPT !.jackpot = <<series>>],
              ret |-> SumTrue(series)]

\* the row labels of face_counter: 1..event_number, then the labels of results
\* that .loc adds
RECURSIVE Enlarge(_, _)
Enlarge(index, labels) ==
    IF labels = <<>> THEN index
    ELSE IF Head(labels) \in Range(index) THEN Enlarge(index, Tail(labels))
    ELSE Enlarge(Append(index, Head(labels)), Tail(labels))

\* event.value_counts(), then counts.get(col, 0) for col in self.faces
FaceCounts(row, faces) ==
    [c \in DOMAIN faces |-> Cardinality({j \in DOMAIN row : row[j] = faces[c]})]

\* face_count(): the frame stored and returned; a row no roll filled is <<>>
face_count(a) ==
    LET df == results(a)
        index == Enlarge([r \in 1..a.event_number |-> r], df.index)
    IN  [index |-> index, columns |-> a.faces,
         rows |-> [l \in Range(index) |->
                     IF \E r \in 1..NRows(df) : df.index[r] = l
                     THEN FaceCounts(RowAt(df, CHOOSE r \in 1..NRows(df) : df.index[r] = l),
                                     a.faces)
                     ELSE <<>>]]

\* sorted(x): the values of s in ascending order; the i-th is the value v with
\* fewer than i values of s below it and at least i values up to it
sorted(s) ==
    [i \in 1..Len(s) |->
        CHOOSE v \in Range(s) :
            /\ Cardinality({j \in DOMAIN s : s[j] < v}) < i
            /\ Cardinality({j \in DOMAIN s : s[j] <= v}) >= i]

\* Series.value_counts(): each value that occurs, with how often it occurs
\* (the order of the rows of the result is not modelled)
value_counts(s) ==
    [k \in Range(s) |-> Cardinality({i \in DOMAIN s : s[i] = k})]

\* the mutant: the outcomes of a roll in die order
combo_key_unsorted(row) == row

\* tuple(sorted(x))
combo_key(row) == sorted(row)

\* tuple(x)
permutation_key(row) == row

\* combo_count(): Combination -> Count
combo_count(a) ==
    value_counts([r \in 1..NRows(results(a)) |-> combo_key(RowAt(results(a), r))])

\* permutation_count(): Permutation -> Count
permutation_count(a) ==
    value_counts([r \in 1..NRows(results(a)) |-> permutation_key(RowAt(results(a), r))])

-----------------------------------------------------------------------------
(* The calls a program makes, and their arguments.                         *)

Call(op, err, arg, ret) == [op |-> op, err |-> err, arg |-> arg, ret |-> ret]

\* the arrays of faces a Die is constructed from
FaceChoices == {<<1, 2>>, <<2, 1>>, <<1, 3>>}

\* arguments of change_weight: faces on and off the dice; weights that are
\* numbers, strings float() converts and a string it refuses
FaceInputs == {1, 2, 3, 9}
WeightInputs ==
    {PyInt(k) : k \in -1..MaxWeight}
        \cup {PyStr(<<"h", "i">>), PyStr(<<"2">>), PyStr(<<"-", "1">>)}

\* weights that switch a face off and on again
OnOffWeights == {PyInt(0), PyInt(1)}

\* arguments of play and roll_time
TimesInputs == {PyInt(k) : k \in -1..MaxTimes} \cup {PyStr(<<"2">>)}

\* arguments of show_results
WideInputs == {0, 1, 2}

\* arguments of Game: something that is no list, and the lists of at most
\* MaxListLen items, each a Die or (0) another object
GameInputs ==
    {NotAList} \cup
    {PyList(items) : items \in UNION {[1..k -> 0..Len(dice)] : k \in 0..MaxListLen}}

\* arguments of Analyzer: the Game, or another object
AnalyzerInputs == {"game", "str"}

ChangeWeight(d, face, w) ==
    /\ dice' = [dice EXCEPT ![d] = change_weight(dice[d], face, w)]
    /\ last' = Call("change_weight", change_weight_err(dice[d], face, w),
                    <<d, face, w>>, <<>>)
    /\ UNCHANGED <<game, an>>

RollTime(d, times) ==
    /\ \E r \in roll_time(dice[d], times) :
           last' = Call("roll_time", r.err, <<d, times>>, r.samples)
    /\ UNCHANGED <<dice, game, an>>

CurrentState(d) ==
    /\ last' = Call("current_state", "ok", <<d>>, current_state(dice[d]))
    /\ UNCHANGED <<dice, game, an>>

GameInit(arg) ==
    /\ game' = IF Game_err(arg) = "ok" THEN NewGame(arg.items) ELSE game
    /\ last' = Call("Game", Game_err(arg), arg, <<>>)
    /\ UNCHANGED <<dice, an>>

\* the outcomes of the dice of the game from the i-th on, one roll_time each
RECURSIVE Rolls(_, _, _)
Rolls(g, times, i) ==
    IF i > Len(g.dice_list) THEN {<<>>}
    ELSE {<<r>> \o rest : r \in roll_time(dice[g.dice_list[i]], times),
                          rest \in Rolls(g, times, i + 1)}

Play(times) ==
    /\ game.made
    /\ \E rolls \in Rolls(game, times, 1) :
           \E r \in {play(game, times, rolls)} :
               /\ game' = r.game
               /\ last' = Call("play", r.err, times, <<>>)
    /\ UNCHANGED <<dice, an>>

ShowResults(wide) ==
    /\ game.made
    /\ last' = Call("show_results", show_results(game, wide).err, wide,
                    show_results(game, wide).ret)
    /\ UNCHANGED <<dice, game, an>>

AnalyzerInit(arg) ==
    /\ arg = "game" => game.made
    /\ \E r \in {Analyzer_init(game, arg)} :
           /\ an' = IF r.err = "ok" THEN r.an ELSE an
           /\ game' = r.game
           /\ last' = Call("Analyzer", r.err, arg, <<>>)
    /\ UNCHANGED dice

Jackpot ==
    /\ an.made
    /\ \E r \in {jackpot(an)} :
           /\ an' = r.an
           /\ last' = Call("jackpot", r.err, <<>>, r.ret)
    /\ UNCHANGED <<dice, game>>

FaceCount ==
    /\ an.made
    /\ \E ret \in {face_count(an)} :
           /\ an' = [an EXCEPT !.face_counter = <<ret>>]
           /\ last' = Call("face_count", "ok", <<>>, ret)
    /\ UNCHANGED <<dice, game>>

ComboCount ==
    /\ an.made
    /\ last' = Call("combo_count", "ok", <<>>, combo_count(an))
    /\ UNCHANGED <<dice, game, an>>

PermutationCount ==
    /\ an.made
    /\ last' = Call("permutation_count", "ok", <<>>, permutation_count(an))
    /\ UNCHANGED <<dice, game, an>>

NoCall == Call("", "ok", <<>>, <<>>)

-----------------------------------------------------------------------------
(* One Die and the calls on it.                                            *)

InitDie ==
    /\ dice \in {<<Die(f)>> : f \in FaceChoices}
    /\ game = NoGame
    /\ an = NoAnalyzer
    /\ last = NoCall

NextDie ==
    \/ \E d \in DOMAIN dice, face \in FaceInputs, w \in WeightInputs :
           ChangeWeight(d, face, w)
    \/ \E d \in DOMAIN dice, times \in TimesInputs : RollTime(d, times)
    \/ \E d \in DOMAIN dice : CurrentState(d)

SpecDie == InitDie /\ [][NextDie]_vars

(* Two dice and the construction of a Game from lists of them.             *)

InitGame ==
    /\ dice \in [1..2 -> {Die(f) : f \in FaceChoices}]
    /\ game = NoGame
    /\ an = NoAnalyzer
    /\ last = NoCall

NextGame == \E arg \in GameInputs : GameInit(arg)

SpecGame == InitGame /\ [][NextGame]_vars

(* A Game over dice with the faces 1 and 2, played and shown.              *)

InitPlay ==
    /\ dice = <<Die(<<1, 2>>), Die(<<2, 1>>)>>
    /\ game \in {NewGame(<<1>>), NewGame(<<1, 2>>)}
    /\ an = NoAnalyzer
    /\ last = NoCall

NextPlay ==
    \/ \E d \in DOMAIN dice : \E face \in Range(dice[d].faces), w \in OnOffWeights :
           ChangeWeight(d, face, w)
    \/ \E times \in TimesInputs : Play(times)
    \/ \E wide \in WideInputs : ShowResults(wide)

SpecPlay == InitPlay /\ [][NextPlay]_vars

(* An Analyzer made from the Game, while the Game is played on and the     *)
(* first die is reweighted.                                                *)

InitSnapshot ==
    /\ dice = <<Die(<<1, 2>>), Die(<<2, 1>>)>>
    /\ game = NewGame(<<1, 2>>)
    /\ an = NoAnalyzer
    /\ last = NoCall

NextSnapshot ==
    \/ \E face \in Range(dice[1].faces), w \in OnOffWeights : ChangeWeight(1, face, w)
    \/ \E times \in {PyInt(k) : k \in 0..MaxTimes} : Play(times)
    \/ \E arg \in AnalyzerInputs : AnalyzerInit(arg)

SpecSnapshot == InitSnapshot /\ [][NextSnapshot]_vars

(* An Analyzer over a Game that was played, or not, beforehand.            *)

\* the two dice after any calls of change_weight with the weights 0 and 1
OnOffDice ==
    {<<[faces |-> <<1, 2>>, die_df |-> w1], [faces |-> <<2, 1>>, die_df |-> w2]>> :
        w1 \in [{1, 2} -> {0, 1}], w2 \in [{1, 2} -> {0, 1}]}

\* the Game g as any one call of play leaves it
Played(g) ==
    UNION {{play(g, times, rolls).game : rolls \in Rolls(g, times, 1)} :
              times \in TimesInputs}

InitAnalyzer ==
    /\ dice \in OnOffDice
    /\ \E g \in {NewGame(<<>>), NewGame(<<1>>), NewGame(<<1, 2>>)} :
           game \in {g} \cup Played(g)
    /\ an = NoAnalyzer
    /\ last = NoCall

NextAnalyzer ==
    \/ \E arg \in AnalyzerInputs : AnalyzerInit(arg)
    \/ Jackpot
    \/ FaceCount
    \/ ComboCount
    \/ PermutationCount

SpecAnalyzer == InitAnalyzer /\ [][NextAnalyzer]_vars

(* The whole program: every call, on the dice, the Game and the Analyzer.  *)

Init == InitPlay

Next ==
    \/ \E d \in DOMAIN dice : \E face \in Range(dice[d].faces), w \in OnOffWeights :
           ChangeWeight(d, face, w)
    \/ \E times \in TimesInputs : Play(times)
    \/ \E wide \in WideInputs : ShowResults(wide)
    \/ \E arg \in AnalyzerInputs : AnalyzerInit(arg)
    \/ Jackpot
    \/ FaceCount
    \/ ComboCount
    \/ PermutationCount

Spec == Init /\ [][Next]_vars

-----------------------------------------------------------------------------
(* Properties.                                                             *)

RECURSIVE SumOver(_, _)
SumOver(f, S) ==
    IF S = {} THEN 0
    ELSE LET k == CHOOSE x \in S : TRUE IN f[k] + SumOver(f, S \ {k})

Occurrences(s, v) == Cardinality({i \in DOMAIN s : s[i] = v})

\* a and b hold the same values, each as often
SameBag(a, b) ==
    /\ Len(a) = Len(b)
    /\ \A v \in Range(a) \cup Range(b) : Occurrences(a, v) = Occurrences(b, v)

NonDecreasing(s) == \A i \in 1..(Len(s) - 1) : s[i] <= s[i + 1]

\* the dice of the game can all be rolled
CanRoll(g) ==
    /\ Len(g.dice_list) >= 1
    /\ \A i \in DOMAIN g.dice_list :
           \E f \in FaceSet(g.dice_list[i]) : dice[g.dice_list[i]].die_df[f] > 0

\* df is a table of n rolls of the dice of g: rows 1..n, columns 1..len(dice),
\* every cell a face of the die of its column
IsTable(df, g, n) ==
    /\ df.index = [r \in 1..n |-> r]
    /\ df.columns = [j \in 1..Len(g.dice_list) |-> j]
    /\ Len(df.data) = Len(g.dice_list)
    /\ \A j \in DOMAIN df.data :
           /\ Len(df.data[j]) = n
           /\ \A r \in 1..n : df.data[j][r] \in FaceSet(g.dice_list[j])

\* C1, as claimed: play(n) with a positive integer n succeeds on every Game
\* and leaves a table of n rows and len(dice) columns of faces of the dice.
C1_PlayAlwaysFillsTable ==
    (last.op = "play" /\ IsPositiveInt(last.arg))
        => (last.err = "ok" /\ IsTable(game.play_df, game, last.arg.n))

\* C1, amended: on a Game of at least one die, play(n) with a positive integer
\* n succeeds exactly when every die has a face of positive weight; when it
\* succeeds it leaves a table of n rows (1..n) and len(dice) columns
\* (1..len(dice)) in which every cell is a face of positive weight of the die
\* of its column, whatever was played before.
C1_PlayFillsTable ==
    (last.op = "play" /\ IsPositiveInt(last.arg))
        => /\ (last.err = "ok") <=> CanRoll(game)
           /\ last.err = "ok" =>
                 /\ IsTable(game.play_df, game, last.arg.n)
                 /\ \A j \in DOMAIN game.play_df.data : \A r \in 1..last.arg.n :
                        dice[game.dice_list[j]].die_df[game.play_df.data[j][r]] > 0
                 /\ get_event_number(game).ret = last.arg.n

C1_Witness ==
    /\ last.op = "play"
    /\ last.err = "ok"
    /\ NRows(game.play_df) = 2
    /\ NCols(game.play_df) = 2
    /\ RowAt(game.play_df, 1) # RowAt(game.play_df, 2)

C3_JackpotCount ==
    (last.op = "jackpot" /\ last.err = "ok") =>
        LET df == an.results
            same == {r \in 1..NRows(df) :
                        \A j, k \in 1..NCols(df) : df.data[j][r] = df.data[k][r]}
        IN  /\ last.ret = Cardinality(same)
            /\ NCols(df) = 1 => last.ret = NRows(df)
            /\ (/\ Len(game.dice_list) >= 1
                /\ \E f \in FaceSet(game.dice_list[1]) :
                       \A i \in DOMAIN game.dice_list :
                           Support(dice[game.dice_list[i]]) = {f})
                   => last.ret = an.event_number /\ last.ret = NRows(df)

C3_Witness ==
    /\ last.op = "jackpot"
    /\ last.err = "ok"
    /\ NRows(an.results) = 2
    /\ NCols(an.results) = 2
    /\ last.ret = 1

\* C4, as claimed: Analyzer(game) on a Game with no populated table fails with
\* ValueError, and an Analyzer exists only over a populated table.
C4_UnplayedIsValueError ==
    /\ (last.op = "Analyzer" /\ last.arg = "game" /\ NRows(game.play_df) = 0)
           => last.err = "ValueError"
    /\ an.made => NRows(an.results) > 0

\* C5, as claimed: Game(x) fails with TypeError whenever x is not a list of
\* Die objects: when it is no list, and when it is a list holding another object.
C5_NotDiceIsTypeError ==
    (/\ last.op = "Game"
     /\ \/ last.arg.t # "list"
        \/ \E i \in DOMAIN last.arg.items : ~IsDie(last.arg.items[i]))
        => last.err = "TypeError"

\* C6: Game(dice_list) on a list of Die objects succeeds if and only if any two
\* of the dice have the same set of faces, in whatever order each lists them,
\* and fails with ValueError otherwise.
C6_SameFaceSets ==
    (/\ last.op = "Game"
     /\ last.arg.t = "list"
     /\ \A i \in DOMAIN last.arg.items : IsDie(last.arg.items[i]))
        => LET items == last.arg.items
               same == \A i, j \in DOMAIN items :
                          \A f \in UNION {Range(dice[d].faces) : d \in DOMAIN dice} :
                              (\E x \in DOMAIN dice[items[i]].faces : dice[items[i]].faces[x] = f)
                                  <=> (\E y \in DOMAIN dice[items[j]].faces : dice[items[j]].faces[y] = f)
           IN  /\ (last.err = "ok") <=> same
               /\ last.err \in {"ok", "ValueError"}
               /\ last.err = "ok" => game.made /\ game.dice_list = items

C6_Witness ==
    /\ last.op = "Game"
    /\ last.err = "ok"
    /\ Len(last.arg.items) = 2
    /\ dice[last.arg.items[1]].faces # dice[last.arg.items[2]].faces

\* C7: once an Analyzer is made, play on its Game and change_weight on the
\* dice leave the Analyzer's table, number of rolls and faces as they were;
\* jackpot, face_count, combo_count and permutation_count read nothing else,
\* so what they return stays as it was.
C7_SnapshotKept ==
    [][(an.made /\ last'.op \in {"play", "change_weight"})
          => /\ an'.made
             /\ results(an)' = results(an)
             /\ an'.event_number = an.event_number
             /\ an'.faces = an.faces
             /\ an'.jackpot = an.jackpot
             /\ an'.face_counter = an.face_counter]_callvars

C7_Witness ==
    /\ an.made
    /\ last.op = "play"
    /\ last.err = "ok"
    /\ NRows(an.results) = 2
    /\ NCols(an.results) = 2
    /\ game.play_df # an.results
    /\ get_event_number(game).ret # an.event_number

\* C8, as claimed: a call of play that fails, for its argument or for a die
\* that cannot be rolled, leaves the table show_results returns and the
\* number get_event_number returns as they were.
C8_FailedPlayKeepsTable ==
    [][(last'.op = "play" /\ last'.err # "ok")
          => /\ show_results(game', 1) = show_results(game, 1)
             /\ get_event_number(game') = get_event_number(game)]_callvars

\* C9: combo_count gives each sorted tuple of a roll's outcomes the number of
\* rolls whose outcomes, sorted, are that tuple; permutation_count gives each
\* tuple of outcomes in die order the number of rolls with exactly that tuple;
\* the counts of either add up to the number of rolls, and the combination of
\* a roll is its permutation sorted, so that there are no more combinations
\* than permutations.
C9_ComboPermutationCounts ==
    (an.made /\ last.op \in {"combo_count", "permutation_count"}) =>
        LET df == an.results
            rows == 1..NRows(df)
            cc == combo_count(an)
            pc == permutation_count(an)
        IN  /\ last.ret = IF last.op = "combo_count" THEN cc ELSE pc
            /\ \A k \in DOMAIN cc :
                   /\ NonDecreasing(k)
                   /\ cc[k] = Cardinality({r \in rows : SameBag(RowAt(df, r), k)})
                   /\ cc[k] >= 1
            /\ \A r \in rows : \E k \in DOMAIN cc : SameBag(RowAt(df, r), k)
            /\ \A k \in DOMAIN pc :
                   /\ pc[k] = Cardinality({r \in rows : RowAt(df, r) = k})
                   /\ pc[k] >= 1
            /\ \A r \in rows : RowAt(df, r) \in DOMAIN pc
            /\ SumOver(cc, DOMAIN cc) = NRows(df)
            /\ SumOver(pc, DOMAIN pc) = NRows(df)
            /\ \A r \in rows :
                   /\ NonDecreasing(combo_key(RowAt(df, r)))
                   /\ SameBag(combo_key(RowAt(df, r)), permutation_key(RowAt(df, r)))
            /\ Cardinality(DOMAIN cc) <= Cardinality(DOMAIN pc)

C9_Witness ==
    /\ an.made
    /\ last.op = "combo_count"
    /\ NRows(an.results) = 2
    /\ Cardinality(DOMAIN combo_count(an)) = 1
    /\ Cardinality(DOMAIN permutation_count(an)) = 2

\* the last call of play on g succeeded: its table has the rolls asked for
IsPlayed(g) ==
    /\ g.times # <<>>
    /\ Len(g.dice_list) >= 1
    /\ g.play_df.index = [r \in 1..g.times[1] |-> r]
    /\ g.play_df.columns = [j \in 1..Len(g.dice_list) |-> j]

\* C10: after play(n) on a Game of g dice, show_results(0) returns n * g rows,
\* roll by roll and die by die within a roll, the one with the index
\* (roll r, die j) holding cell (r, j) of the table; show_results(1) returns
\* the table; neither changes the Game.
C10_NarrowMatchesWide ==
    [][(last'.op = "show_results" /\ last'.err = "ok") =>
          /\ game' = game
          /\ last'.arg = 1 => last'.ret = game.play_df
          /\ (last'.arg = 0 /\ IsPlayed(game)) =>
                LET n == game.times[1]
                    g == Len(game.dice_list)
                    narrow == last'.ret
                IN  /\ Len(narrow) = n * g
                    /\ \A r \in 1..n : \A j \in 1..g :
                           /\ narrow[(r - 1) * g + j].key = <<r, j>>
                           /\ narrow[(r - 1) * g + j].Outcome = game.play_df.data[j][r]]_callvars

C10_Witness ==
    /\ last.op = "show_results"
    /\ last.err = "ok"
    /\ last.arg = 0
    /\ IsPlayed(game)
    /\ Len(last.ret) = 4
    /\ last.ret[2].Outcome # last.ret[3].Outcome

\* C11, as claimed: on one Analyzer every call of jackpot, face_count,
\* combo_count and permutation_count succeeds, in whatever order they are
\* called, and every call of jackpot returns the integer the first call
\* returned, the number of True values of the Series that call stored.
C11_QueriesRepeatable ==
    /\ last.op \in {"jackpot", "face_count", "combo_count", "permutation_count"}
           => last.err = "ok"
    /\ last.op = "jackpot"
           => /\ an.jackpot # <<>>
              /\ last.ret = SumTrue(an.jackpot[1])

====
